---- MODULE Spec2Model ----
(***************************************************************************)
(* Model of the RosPatent gateway (src/main.py): the /search handler, the  *)
(* upstream client _query_rospatent, the normalizer _normalize_hit with    *)
(* its helpers _safe_get and _fmt_date.                                    *)
(*                                                                         *)
(* JSON values are tagged records; Python strings are sequences of         *)
(* one-character strings, so that strip(), strptime() and strftime() are   *)
(* computed character by character.  A Python call that can raise returns  *)
(* a record [ok |-> BOOLEAN, ...]; ok = FALSE carries the exception name.  *)
(***************************************************************************)
EXTENDS Integers, Sequences, FiniteSets, TLC

VARIABLES
    pc,          \* position of the /search handler: "idle", "posted", "done"
    q,           \* request parameter q
    page,        \* request parameter page
    size,        \* request parameter size
    payload,     \* JSON body of the POST in flight (NoPayload before the call)
    posts,       \* number of requests.post calls made by the current request
    response,    \* the SearchResponse returned (NoResponse before the return)
    escaped,     \* TRUE when an exception left search() instead of a response
    raw,         \* what the upstream answered to the current request
    hitIn,       \* input of a stand-alone _normalize_hit call
    hitOut,      \* its result
    dateIn,      \* input of a stand-alone _fmt_date call
    dateOut,     \* its result
    padsYear,    \* platform: strftime("%Y") zero-pads years below 1000
    coerces      \* platform: the model layer coerces int to str (pydantic 1)

vars == <<pc, q, page, size, payload, posts, response, escaped, raw,
          hitIn, hitOut, dateIn, dateOut, padsYear, coerces>>

-----------------------------------------------------------------------------
(* JSON values *)

JNull == [t |-> "null"]
JStr(s) == [t |-> "str", s |-> s]
JInt(n) == [t |-> "int", n |-> n]
JList(l) == [t |-> "list", l |-> l]
JDict(d) == [t |-> "dict", d |-> d]

EmptyDict == JDict([k \in {} |-> JNull])
EmptyStr == JStr(<<>>)

\* Python truthiness of a JSON value (None, "", 0, [], {} are falsy)
Truthy(v) ==
    CASE v.t = "null" -> FALSE
      [] v.t = "str"  -> v.s # <<>>
      [] v.t = "int"  -> v.n # 0
      [] v.t = "list" -> v.l # <<>>
      [] v.t = "dict" -> DOMAIN v.d # {}

\* dict.get(key): None when the key is missing
DictGet(v, key) == IF key \in DOMAIN v.d THEN v.d[key] ELSE JNull

\* results of calls that may raise
Ok(v) == [ok |-> TRUE, v |-> v]
Raise(e) == [ok |-> FALSE, exc |-> e]

-----------------------------------------------------------------------------
(* Strings *)

Digits == {"0", "1", "2", "3", "4", "5", "6", "7", "8", "9"}
DigitSeq == <<"0", "1", "2", "3", "4", "5", "6", "7", "8", "9">>
Whitespace == {" "}

DigitVal(c) == (CHOOSE i \in 1..10 : DigitSeq[i] = c) - 1
DigitChr(n) == DigitSeq[n + 1]

RECURSIVE LStrip(_)
LStrip(s) == IF s # <<>> /\ Head(s) \in Whitespace THEN LStrip(Tail(s)) ELSE s

RECURSIVE RStrip(_)
RStrip(s) ==
    IF s # <<>> /\ s[Len(s)] \in Whitespace
    THEN RStrip(SubSeq(s, 1, Len(s) - 1))
    ELSE s

\* str.strip()
Strip(s) == RStrip(LStrip(s))

\* str(n)
RECURSIVE IntToStr(_)
IntToStr(n) ==
    IF n < 0 THEN <<"-">> \o IntToStr(-n)
    ELSE IF n < 10 THEN <<DigitChr(n)>>
    ELSE IntToStr(n \div 10) \o <<DigitChr(n % 10)>>

\* "%0wd" % n
RECURSIVE ZeroPad(_, _)
ZeroPad(s, w) == IF Len(s) < w THEN ZeroPad(<<"0">> \o s, w) ELSE s

-----------------------------------------------------------------------------
(* datetime.strptime / strftime as used by _fmt_date *)

\* the candidate formats of _fmt_date, in the order of the for loop
FORMATS == <<
    <<"%Y", ".", "%m", ".", "%d">>,
    <<"%Y", "-", "%m", "-", "%d">>,
    <<"%d", ".", "%m", ".", "%Y">>,
    <<"%Y", "%m", "%d">>,
    <<"%d", ".", "%m", ".", "%y">> >>

Directives == {"%Y", "%y", "%m", "%d"}
NoGroups == [g \in Directives |-> -1]

IsDigitAt(s, i) == i <= Len(s) /\ s[i] \in Digits
IsCharAt(s, i, cs) == i <= Len(s) /\ s[i] \in cs
Two(s, i) == 10 * DigitVal(s[i]) + DigitVal(s[i + 1])
Opt(cond, v, j) == IF cond THEN <<[v |-> v, j |-> j]>> ELSE <<>>

\* The alternatives of one regex element at position i, in the order the
\* regex engine tries them; each gives the value read and the next position.
\*   %Y (\d\d\d\d)   %y (\d\d)   %m (1[0-2]|0[1-9]|[1-9])
\*   %d (3[0-1]|[1-2]\d|0[1-9]|[1-9]| [1-9])   other: the literal character
Alternatives(tok, s, i) ==
    CASE tok = "%Y" ->
            Opt(\A k \in 0..3 : IsDigitAt(s, i + k),
                100 * Two(s, i) + Two(s, i + 2), i + 4)
      [] tok = "%y" ->
            Opt(IsDigitAt(s, i) /\ IsDigitAt(s, i + 1), Two(s, i), i + 2)
      [] tok = "%m" ->
            Opt(IsCharAt(s, i, {"1"}) /\ IsCharAt(s, i + 1, {"0", "1", "2"}),
                Two(s, i), i + 2)
            \o Opt(IsCharAt(s, i, {"0"}) /\ IsCharAt(s, i + 1, Digits \ {"0"}),
                   Two(s, i), i + 2)
            \o Opt(IsCharAt(s, i, Digits \ {"0"}), DigitVal(s[i]), i + 1)
      [] tok = "%d" ->
            Opt(IsCharAt(s, i, {"3"}) /\ IsCharAt(s, i + 1, {"0", "1"}),
                Two(s, i), i + 2)
            \o Opt(IsCharAt(s, i, {"1", "2"}) /\ IsDigitAt(s, i + 1),
                   Two(s, i), i + 2)
            \o Opt(IsCharAt(s, i, {"0"}) /\ IsCharAt(s, i + 1, Digits \ {"0"}),
                   Two(s, i), i + 2)
            \o Opt(IsCharAt(s, i, Digits \ {"0"}), DigitVal(s[i]), i + 1)
            \o Opt(IsCharAt(s, i, {" "}) /\ IsCharAt(s, i + 1, Digits \ {"0"}),
                   DigitVal(s[i + 1]), i + 2)
      [] OTHER -> Opt(IsCharAt(s, i, {tok}), 0, i + 1)

\* format_regex.match(data_string): the first match in backtracking order,
\* as a sequence of zero or one [g |-> groups, end |-> position after it]
RECURSIVE ReMatch(_, _, _, _, _)
RECURSIVE TryAlts(_, _, _, _, _, _)
ReMatch(fmt, k, s, i, g) ==
    IF k > Len(fmt) THEN <<[g |-> g, end |-> i]>>
    ELSE TryAlts(fmt, k, s, Alternatives(fmt[k], s, i), 1, g)
TryAlts(fmt, k, s, alts, n, g) ==
    IF n > Len(alts) THEN <<>>
    ELSE LET g2 == IF fmt[k] \in Directives
                   THEN [g EXCEPT ![fmt[k]] = alts[n].v] ELSE g
             r == ReMatch(fmt, k + 1, s, alts[n].j, g2)
         IN IF r # <<>> THEN r ELSE TryAlts(fmt, k, s, alts, n + 1, g)

IsLeap(y) == y % 4 = 0 /\ (y % 100 # 0 \/ y % 400 = 0)
DaysInMonth(y, m) ==
    IF m = 2 THEN (IF IsLeap(y) THEN 29 ELSE 28)
    ELSE IF m \in {4, 6, 9, 11} THEN 30 ELSE 31

\* datetime accepts the years 1..9999
ValidDate(y, m, d) ==
    /\ y >= 1 /\ y <= 9999
    /\ m >= 1 /\ m <= 12
    /\ d >= 1 /\ d <= DaysInMonth(y, m)

\* two-digit years: 69..99 are 1969..1999, 00..68 are 2000..2068
Century(yy) == IF yy <= 68 THEN 2000 + yy ELSE 1900 + yy

\* datetime.strptime(ds, fmt): Ok(<<year, month, day>>) or ValueError
Strptime(ds, fmt) ==
    LET found == ReMatch(fmt, 1, ds, 1, NoGroups) IN
    IF found = <<>> THEN Raise("ValueError")
    ELSE IF found[1].end # Len(ds) + 1 THEN Raise("ValueError")
    ELSE LET g == found[1].g
             year == IF g["%y"] # -1 THEN Century(g["%y"]) ELSE g["%Y"]
         IN IF ValidDate(year, g["%m"], g["%d"])
            THEN Ok(<<year, g["%m"], g["%d"]>>)
            ELSE Raise("ValueError")

\* dt.strftime("%Y-%m-%d"); the C library decides whether %Y is zero-padded
Strftime(dt) ==
    (IF padsYear THEN ZeroPad(IntToStr(dt[1]), 4) ELSE IntToStr(dt[1]))
    \o <<"-">> \o ZeroPad(IntToStr(dt[2]), 2)
    \o <<"-">> \o ZeroPad(IntToStr(dt[3]), 2)

\* the for loop of _fmt_date from format number n on
RECURSIVE TryFormats(_, _)
TryFormats(ds, n) ==
    IF n > Len(FORMATS) THEN JNull
    ELSE LET r == Strptime(ds, FORMATS[n])
         IN IF r.ok THEN JStr(Strftime(r.v)) ELSE TryFormats(ds, n + 1)

\* _fmt_date(date_str)
_fmt_date(date_str) ==
    IF ~Truthy(date_str) THEN Ok(JNull)
    ELSE IF date_str.t # "str" THEN Raise("AttributeError")
    ELSE Ok(TryFormats(Strip(date_str.s), 1))

-----------------------------------------------------------------------------
(* _safe_get and _normalize_hit *)

\* _safe_get(d, *path, default=default)
RECURSIVE _safe_get(_, _, _)
_safe_get(d, path, default) ==
    IF path = <<>> THEN (IF d # JNull THEN d ELSE default)
    ELSE IF d.t # "dict" THEN default
    ELSE _safe_get(DictGet(d, Head(path)), Tail(path), default)

\* v.strip(): only str has the method
StripOf(v) == IF v.t = "str" THEN Ok(JStr(Strip(v.s))) ELSE Raise("AttributeError")

\* v.get(key): only dict has the method
GetOf(v, key) == IF v.t = "dict" THEN Ok(DictGet(v, key)) ELSE Raise("AttributeError")

\* a or b
PyOr(a, b) == IF Truthy(a) THEN a ELSE b

\* lines 185-186 and 191-192: the flat biblio.title / biblio.abstract fallback
FlatFallback(cur, biblio, key) ==
    IF Truthy(cur) THEN Ok(cur)
    ELSE LET g == GetOf(biblio, key)
         IN IF ~g.ok THEN g
            ELSE IF g.v.t = "str" THEN Ok(g.v) ELSE Ok(cur)

\* " ".join(bits)
RECURSIVE Join(_)
Join(bits) ==
    IF bits = <<>> THEN Ok(<<>>)
    ELSE IF Head(bits).t # "str" THEN Raise("TypeError")
    ELSE LET rest == Join(Tail(bits))
         IN IF ~rest.ok THEN rest
            ELSE IF Tail(bits) = <<>> THEN Ok(Head(bits).s)
            ELSE Ok(Head(bits).s \o <<" ">> \o rest.v)

\* the body of the for loop over ipc_entries for one entry:
\* Ok(<<code>>), Ok(<<>>) when the entry yields nothing, or an exception
IpcOfEntry(entry) ==
    IF entry.t # "dict" THEN Raise("AttributeError")
    ELSE LET main_group == DictGet(entry, "main_group")
             subgroup == DictGet(entry, "subgroup")
             fullcode == DictGet(entry, "fullname")
             bits == SelectSeq(<<main_group, subgroup>>, Truthy)
         IN IF Truthy(fullcode) THEN Ok(<<fullcode>>)
            ELSE IF bits = <<>> THEN Ok(<<>>)
            ELSE LET j == Join(bits)
                 IN IF j.ok THEN Ok(<<JStr(j.v)>>) ELSE j

\* the for loop over ipc_entries: the list built, or the first exception
RECURSIVE IpcLoop(_)
IpcLoop(entries) ==
    IF entries = <<>> THEN Ok(<<>>)
    ELSE LET h == IpcOfEntry(Head(entries))
         IN IF ~h.ok THEN h
            ELSE LET rest == IpcLoop(Tail(entries))
                 IN IF ~rest.ok THEN rest ELSE Ok(h.v \o rest.v)

\* lines 195-210: ipc_list
IpcList(common) ==
    LET classification == _safe_get(common, <<"classification">>, EmptyDict)
        g == GetOf(classification, "ipc")
    IN IF ~g.ok THEN g
       ELSE IpcLoop(IF g.v.t = "list" THEN g.v.l ELSE <<>>)

\* validation of an Optional[str] field of PatentItem
ValidateOptStr(v) ==
    CASE v.t \in {"null", "str"} -> Ok(v)
      [] v.t = "int" /\ coerces -> Ok(JStr(IntToStr(v.n)))
      [] OTHER -> Raise("ValidationError")

\* validation of the Optional[List[str]] field ipc
RECURSIVE ValidateStrList(_)
ValidateStrList(l) ==
    IF l = <<>> THEN Ok(<<>>)
    ELSE LET h == ValidateOptStr(Head(l))
             rest == ValidateStrList(Tail(l))
         IN IF ~h.ok \/ h.v.t = "null" THEN Raise("ValidationError")
            ELSE IF ~rest.ok THEN rest
            ELSE Ok(<<h.v>> \o rest.v)

ItemFields == {"publicationNumber", "kindCode", "country", "publicationDate",
               "titleOriginal", "titleRu", "abstractOriginal", "abstractRu"}

\* PatentItem(**fields, ipc=ipc): lines 57-66
PatentItem(fields, ipc) ==
    LET checked == [f \in ItemFields |-> ValidateOptStr(fields[f])]
        list == IF ipc.t = "null" THEN Ok(<<>>) ELSE ValidateStrList(ipc.l)
    IN IF (\E f \in ItemFields : ~checked[f].ok) \/ ~list.ok
       THEN Raise("ValidationError")
       ELSE Ok([f \in ItemFields \cup {"ipc"} |->
                  IF f = "ipc"
                  THEN (IF ipc.t = "null" THEN JNull ELSE JList(list.v))
                  ELSE checked[f].v])

\* lines 165-175: pub_number from the stripped country, docnum and kind
PubNumber(country, docnum, kind) ==
    IF docnum.s = <<>> THEN JNull
    ELSE IF Truthy(country) THEN JStr(country.s \o docnum.s \o kind.s)
    ELSE IF kind.s # <<>> THEN JStr(docnum.s \o kind.s)
    ELSE docnum

\* _normalize_hit(hit): Ok(PatentItem) or the exception it raises
_normalize_hit(hit) ==
    LET common == _safe_get(hit, <<"common">>, EmptyDict)
        biblio == _safe_get(hit, <<"biblio">>, EmptyDict)
        ru_block == _safe_get(biblio, <<"ru">>, EmptyDict)
        en_block == _safe_get(biblio, <<"en">>, EmptyDict)
        office == StripOf(_safe_get(common, <<"publishing_office">>, EmptyStr))
        docnum == StripOf(_safe_get(common, <<"document_number">>, EmptyStr))
        kind == StripOf(_safe_get(common, <<"kind">>, EmptyStr))
        pub_date == _fmt_date(_safe_get(common, <<"publication_date">>, JNull))
        title_en == _safe_get(en_block, <<"title">>, JNull)
        title_ru == FlatFallback(_safe_get(ru_block, <<"title">>, JNull),
                                 biblio, "title")
        abstr_en == _safe_get(en_block, <<"abstract">>, JNull)
        abstr_ru == FlatFallback(_safe_get(ru_block, <<"abstract">>, JNull),
                                 biblio, "abstract")
        ipc_list == IpcList(common)
    IN IF ~office.ok THEN office
       ELSE IF ~docnum.ok THEN docnum
       ELSE IF ~kind.ok THEN kind
       ELSE IF ~pub_date.ok THEN pub_date
       ELSE IF ~title_ru.ok THEN title_ru
       ELSE IF ~abstr_ru.ok THEN abstr_ru
       ELSE IF ~ipc_list.ok THEN ipc_list
       ELSE LET country == PyOr(office.v, JNull)
            IN PatentItem(
                 [f \in ItemFields |->
                    CASE f = "publicationNumber" ->
                            PubNumber(country, docnum.v, kind.v)
                      [] f = "kindCode" -> PyOr(kind.v, JNull)
                      [] f = "country" -> PyOr(country, JNull)
                      [] f = "publicationDate" -> pub_date.v
                      [] f = "titleOriginal" -> PyOr(title_en, title_ru.v)
                      [] f = "titleRu" -> title_ru.v
                      [] f = "abstractOriginal" -> PyOr(abstr_en, abstr_ru.v)
                      [] f = "abstractRu" -> abstr_ru.v],
                 IF ipc_list.v # <<>> THEN JList(ipc_list.v) ELSE JNull)

-----------------------------------------------------------------------------
(* Inputs of the stand-alone _fmt_date calls *)

MaxPad == 1      \* most blanks put before and after a date string

Dot == <<".">>
Dash == <<"-">>
Blank == <<" ">>

\* digit groups the date strings are assembled from
DateToks == {
    <<"2", "0", "2", "0">>, <<"2", "0", "2", "5">>, <<"0", "9", "9", "9">>,
    <<"0", "0", "0", "0">>,
    <<"0", "1">>, <<"0", "2">>, <<"0", "3">>, <<"0", "9">>, <<"3">>,
    <<"2", "3">>, <<"2", "9">>, <<"3", "1">>, <<"6", "8">>, <<"6", "9">>,
    <<" ", "3">> }

\* the two separators of a date string
SepPairs == {<<Dot, Dot>>, <<Dash, Dash>>, <<<<>>, <<>>>>, <<Dot, Dash>>}

RECURSIVE Blanks(_)
Blanks(n) == IF n = 0 THEN <<>> ELSE Blank \o Blanks(n - 1)

NotADate == <<"n", "o", "t", "-", "a", "-", "d", "a", "t", "e">>

DateStrings ==
    { Blanks(l) \o a \o sp[1] \o b \o sp[2] \o c \o Blanks(r) :
        <<a, b, c, sp, l, r>> \in
            DateToks \X DateToks \X DateToks \X SepPairs
            \X (0..MaxPad) \X (0..MaxPad) }
    \cup {<<>>, NotADate} \cup {Blanks(n) : n \in 1..MaxPad}

\* what common.publication_date can hold: a string, nothing, or another type
DateInputs ==
    {JStr(s) : s \in DateStrings}
    \cup {JNull, JInt(0), JInt(20200331), JList(<<>>), EmptyDict,
          JList(<<JInt(2020)>>)}

NotCalled == [called |-> FALSE]

-----------------------------------------------------------------------------
(* State before any request or call *)

NoPayload == [sent |-> FALSE]
NoResponse == [returned |-> FALSE]
NoReply == [kind |-> "none"]

\* no /search request has been received; page and size hold their defaults
SearchIdle ==
    /\ pc = "idle"
    /\ q = ""
    /\ page = 1
    /\ size = 25
    /\ payload = NoPayload
    /\ posts = 0
    /\ response = NoResponse
    /\ escaped = FALSE
    /\ raw = NoReply

searchVars == <<pc, q, page, size, payload, posts, response, escaped, raw>>
normVars == <<hitIn, hitOut>>
dateVars == <<dateIn, dateOut>>
platformVars == <<padsYear, coerces>>

-----------------------------------------------------------------------------
(* _fmt_date on its own *)

InitDate ==
    /\ SearchIdle
    /\ hitIn = JNull
    /\ hitOut = NotCalled
    /\ dateIn \in DateInputs
    /\ dateOut = NotCalled
    /\ padsYear \in BOOLEAN
    /\ coerces = FALSE

\* pub_date = _fmt_date(raw_pub_date)
FmtDateCall ==
    /\ dateOut = NotCalled
    /\ dateOut' = _fmt_date(dateIn)
    /\ UNCHANGED <<searchVars, normVars, dateIn, platformVars>>

NextDate == FmtDateCall

SpecDate == InitDate /\ [][NextDate]_vars

-----------------------------------------------------------------------------
(* Upstream hits *)

S_RU == JStr(<<"R", "U">>)
S_RUpad == JStr(<<" ", "R", "U", " ">>)
S_2712345 == JStr(<<"2", "7", "1", "2", "3", "4", "5">>)
S_123 == JStr(<<"1", "2", "3">>)
S_C1 == JStr(<<"C", "1">>)
S_Foo == JStr(<<"F", "o", "o">>)
S_Bar == JStr(<<"B", "a", "r">>)
S_Abs == JStr(<<"A", "b", "s">>)
S_A01B == JStr(<<"A", "0", "1", "B">>)
S_G1 == JStr(<<"1">>)
S_00 == JStr(<<"0", "0">>)
S_Date1 == JStr(<<"2", "0", "2", "0", ".", "0", "3", ".", "3", "1">>)
S_Date2 == JStr(<<"2", "3", ".", "0", "9", ".", "2", "0", "2", "5">>)
S_Date3 == JStr(<<"0", "9", "9", "9", ".", "0", "1", ".", "0", "1">>)

IpcEntries == JList(<<JDict([fullname |-> S_A01B]),
                      JDict([main_group |-> S_G1, subgroup |-> S_00]),
                      JDict([subgroup |-> S_00, fullname |-> EmptyStr]),
                      EmptyDict>>)

\* common blocks of the shape _normalize_hit's docstring describes,
\* every field a string or missing
CommonWellFormed == {
    JDict([publishing_office |-> S_RU, document_number |-> S_2712345,
           kind |-> S_C1, publication_date |-> S_Date1,
           classification |-> JDict([ipc |-> IpcEntries])]),
    JDict([document_number |-> S_123, kind |-> EmptyStr,
           publication_date |-> S_Date2]),
    JDict([publishing_office |-> S_RUpad, kind |-> S_C1,
           publication_date |-> JStr(NotADate),
           classification |-> JDict([ipc |-> JList(<<>>)])]),
    JDict([document_number |-> S_123, kind |-> S_C1,
           publication_date |-> S_Date3, classification |-> EmptyDict]),
    EmptyDict }

\* common blocks with a value of the wrong type somewhere
CommonMalformed == {
    JDict([document_number |-> S_123, classification |-> S_A01B]),
    JDict([document_number |-> S_123,
           classification |-> JDict([ipc |-> S_A01B])]),
    JDict([document_number |-> S_123,
           classification |-> JDict([ipc |-> JList(<<S_A01B>>)])]),
    JDict([document_number |-> S_123,
           classification |->
               JDict([ipc |-> JList(<<JDict([main_group |-> JInt(1)])>>)])]),
    JDict([document_number |-> S_123,
           classification |->
               JDict([ipc |-> JList(<<JDict([fullname |-> JInt(7)])>>)])]),
    JDict([publishing_office |-> JInt(7), document_number |-> S_123]),
    JDict([document_number |-> JInt(123)]),
    JDict([document_number |-> S_123, kind |-> JList(<<S_C1>>)]),
    JDict([document_number |-> S_123, publication_date |-> JInt(20200331)]),
    JDict([document_number |-> S_123, publication_date |-> JInt(0)]),
    S_RU,
    JList(<<S_RU>>) }

BiblioWellFormed == {
    JDict([ru |-> JDict([title |-> S_Foo, abstract |-> S_Abs]),
           en |-> JDict([title |-> S_Bar])]),
    JDict([ru |-> JDict([title |-> S_Foo])]),
    JDict([en |-> JDict([title |-> S_Bar, abstract |-> S_Abs])]),
    JDict([title |-> S_Foo]),
    JDict([title |-> S_Foo, abstract |-> S_Abs,
           ru |-> JDict([title |-> EmptyStr])]),
    EmptyDict }

BiblioMalformed == {
    S_Foo,
    JList(<<S_Foo>>),
    JDict([ru |-> S_Foo, en |-> JInt(1), title |-> S_Bar]),
    JDict([ru |-> JDict([title |-> JInt(5)])]),
    JDict([ru |-> JDict([title |-> JList(<<S_Foo>>)])]),
    JDict([en |-> JDict([abstract |-> EmptyDict])]),
    JDict([title |-> JInt(5), ru |-> JDict([abstract |-> S_Abs])]) }

MkHit(common, biblio) == JDict([common |-> common, biblio |-> biblio])

\* hits in which every block is a mapping and every scalar a string
WellFormedHits ==
    {MkHit(c, b) : <<c, b>> \in CommonWellFormed \X BiblioWellFormed}
    \cup {JDict([common |-> c]) : c \in CommonWellFormed}
    \cup {JDict([biblio |-> b]) : b \in BiblioWellFormed}

\* hits with one block or scalar of the wrong type
MalformedHits ==
    {MkHit(c, b) : <<c, b>> \in CommonMalformed \X BiblioWellFormed}
    \cup {MkHit(c, b) : <<c, b>> \in CommonWellFormed \X BiblioMalformed}
    \cup {JDict([common |-> JNull, biblio |-> JNull]),
          S_Foo, JInt(3), JNull, JList(<<>>)}

HitInputs == WellFormedHits \cup MalformedHits

-----------------------------------------------------------------------------
(* _normalize_hit on its own *)

InitNorm ==
    /\ SearchIdle
    /\ hitIn \in HitInputs
    /\ hitOut = NotCalled
    /\ dateIn = JNull
    /\ dateOut = NotCalled
    /\ padsYear \in BOOLEAN
    /\ coerces \in BOOLEAN

\* _normalize_hit(h)
NormalizeCall ==
    /\ hitOut = NotCalled
    /\ hitOut' = _normalize_hit(hitIn)
    /\ UNCHANGED <<searchVars, hitIn, dateVars, platformVars>>

NextNorm == NormalizeCall

SpecNorm == InitNorm /\ [][NextNorm]_vars

-----------------------------------------------------------------------------
(* /search *)

MaxPage == 4     \* largest page number requested
MaxHits == 3     \* longest hit list the upstream returns
MIN_SIZE == 1
MAX_SIZE == 25

Queries == {"solar desalination", "H02S"}

\* the page sizes requested: both ends of the accepted range and sizes
\* below, at and above the number of hits returned
Sizes == {MIN_SIZE, 2, 3, MAX_SIZE}

DEFAULT_DATASETS == <<
    "ru_till_1994", "ru_since_1994", "cis", "dsgn_ru", "ap", "cn", "ch", "au",
    "gb", "kr", "ca", "at", "de", "es", "fr", "jp", "us", "wo", "pctmin",
    "pctapp", "pctpub", "smallfond">>

\* an offset counted from page 0
OffsetOfNextPage(p, s) == p * s

\* offset = (page - 1) * size
Offset(p, s) == (p - 1) * s

\* the payload _query_rospatent builds (the highlight profile and the
\* pre_tag/post_tag markup are constant strings and left out)
query_payload(query, offset, limit) ==
    [qn |-> query, offset |-> offset, limit |-> limit, sort |-> "relevance",
     preffered_lang |-> "ru", countStatistics |-> TRUE, include_facets |-> 0,
     datasets |-> DEFAULT_DATASETS]

\* exceptions requests.post, raise_for_status and r.json() raise
PostErrors == {"ConnectionError", "Timeout"}
ErrorStatuses == {404, 500}

\* an except clause that names only the exceptions of the HTTP client
CatchesRequestErrors(exc) ==
    exc \in {"ConnectionError", "Timeout", "HTTPError", "JSONDecodeError"}

\* except Exception: every exception raised in the try block is caught
Catches(exc) == TRUE

\* the SearchResponse of the except branch
EmptyResponse(p, s) ==
    [total |-> 0, page |-> p, size |-> s, nextPage |-> JNull, items |-> <<>>]

\* raw.get(key, default)
RawGet(body, key, default) ==
    IF key \in DOMAIN body.d THEN body.d[key] ELSE default

\* hits = raw.get("hits", [])
HitsOf(body) == RawGet(body, "hits", JList(<<>>))

\* a fallback of 0 instead of len(hits)
TotalOfZero(body, n) == RawGet(body, "total", JInt(0))

\* total = raw.get("total", len(hits)), n being len(hits)
TotalOf(body, n) == RawGet(body, "total", JInt(n))

\* len(hits)
PyLen(v) ==
    CASE v.t = "list" -> Ok(Len(v.l))
      [] v.t = "str" -> Ok(Len(v.s))
      [] v.t = "dict" -> Ok(Cardinality(DOMAIN v.d))
      [] OTHER -> Raise("TypeError")

RECURSIVE SetToSeq(_)
SetToSeq(S) ==
    IF S = {} THEN <<>>
    ELSE LET x == CHOOSE y \in S : TRUE IN <<x>> \o SetToSeq(S \ {x})

\* what "for h in hits" iterates over: the elements of a list, the
\* characters of a string, the keys of a mapping (each key kept whole)
PyIter(v) ==
    CASE v.t = "list" -> Ok(v.l)
      [] v.t = "str" -> Ok([i \in 1..Len(v.s) |-> JStr(<<v.s[i]>>)])
      [] v.t = "dict" ->
            LET keys == SetToSeq(DOMAIN v.d)
            IN Ok([i \in 1..Len(keys) |-> JStr(<<keys[i]>>)])
      [] OTHER -> Raise("TypeError")

\* a comprehension that filters out the items with no publication number
RECURSIVE CleanedItemsNumbered(_)
CleanedItemsNumbered(hs) ==
    IF hs = <<>> THEN Ok(<<>>)
    ELSE LET h == _normalize_hit(Head(hs))
         IN IF ~h.ok THEN h
            ELSE LET rest == CleanedItemsNumbered(Tail(hs))
                 IN IF ~rest.ok THEN rest
                    ELSE IF h.v["publicationNumber"] = JNull THEN rest
                    ELSE Ok(<<h.v>> \o rest.v)

\* cleaned_items = [_normalize_hit(h) for h in hits]
RECURSIVE CleanedItems(_)
CleanedItems(hs) ==
    IF hs = <<>> THEN Ok(<<>>)
    ELSE LET h == _normalize_hit(Head(hs))
         IN IF ~h.ok THEN h
            ELSE LET rest == CleanedItems(Tail(hs))
                 IN IF ~rest.ok THEN rest ELSE Ok(<<h.v>> \o rest.v)

\* a next page also when the current page ends exactly at total
next_page_le(p, offset, s, total) ==
    IF offset + s <= total THEN JInt(p + 1) ELSE JNull

\* next_page = page + 1 if (offset + size) < total else None
next_page(p, offset, s, total) ==
    IF offset + s < total THEN JInt(p + 1) ELSE JNull

\* a response whose size is the number of items returned
SearchResponseItemCount(total, p, s, nextPage, items) ==
    [total |-> total, page |-> p, size |-> Len(items), nextPage |-> nextPage,
     items |-> items]

\* SearchResponse(total=..., page=..., size=..., nextPage=..., items=...)
SearchResponse(total, p, s, nextPage, items) ==
    [total |-> total, page |-> p, size |-> s, nextPage |-> nextPage,
     items |-> items]

\* lines 254-268: the try block after _query_rospatent returned body
SearchTry(body, p, s) ==
    IF body.t # "dict" THEN Raise("AttributeError")
    ELSE LET hits == HitsOf(body)
             n == PyLen(hits)
         IN IF ~n.ok THEN n
            ELSE LET total == TotalOf(body, n.v)
                     it == PyIter(hits)
                     cleaned_items == CleanedItems(it.v)
                 IN IF ~cleaned_items.ok THEN cleaned_items
                    ELSE IF total.t # "int" THEN Raise("TypeError")
                    ELSE Ok(SearchResponse(
                              total.n, p, s,
                              next_page(p, Offset(p, s), s, total.n),
                              cleaned_items.v))

\* the handler has left the try block with result r
Finish(r) ==
    /\ pc' = "done"
    /\ IF r.ok
       THEN response' = r.v /\ escaped' = FALSE
       ELSE IF Catches(r.exc)
       THEN response' = EmptyResponse(page, size) /\ escaped' = FALSE
       ELSE response' = NoResponse /\ escaped' = TRUE
    /\ UNCHANGED <<q, page, size, payload, posts, normVars, dateVars,
                   platformVars>>

\* GET /search?q=&page=&size= up to the POST of _query_rospatent; the
\* handler keeps nothing from one request to the next, so a behaviour
\* follows one request
SearchCall(query, p, s) ==
    /\ pc = "idle"
    /\ p >= 1 /\ s >= MIN_SIZE /\ s <= MAX_SIZE
    /\ q' = query /\ page' = p /\ size' = s
    /\ payload' = query_payload(query, Offset(p, s), s)
    /\ posts' = 1
    /\ pc' = "posted"
    /\ response' = NoResponse
    /\ escaped' = FALSE
    /\ raw' = NoReply
    /\ UNCHANGED <<normVars, dateVars, platformVars>>

\* a client that posts again after a failed attempt
PostRaisesRetry(exc) ==
    /\ pc = "posted"
    /\ posts < 3
    /\ posts' = posts + 1
    /\ UNCHANGED <<pc, q, page, size, payload, response, escaped, raw,
                   normVars, dateVars, platformVars>>

\* requests.post raises (no connection, or no answer within the timeout)
PostRaises(exc) ==
    /\ pc = "posted"
    /\ raw' = [kind |-> "error", exc |-> exc]
    /\ Finish(Raise(exc))

\* r.raise_for_status() raises on a 4xx/5xx answer
RaiseForStatus(status) ==
    /\ pc = "posted"
    /\ status >= 400
    /\ raw' = [kind |-> "error", exc |-> "HTTPError", status |-> status]
    /\ Finish(Raise("HTTPError"))

\* r.json() raises on a body that is not JSON
JsonRaises ==
    /\ pc = "posted"
    /\ raw' = [kind |-> "error", exc |-> "JSONDecodeError"]
    /\ Finish(Raise("JSONDecodeError"))

\* r.json() returns body and the rest of the try block runs
PostReturns(body) ==
    /\ pc = "posted"
    /\ raw' = [kind |-> "json", body |-> body]
    /\ Finish(SearchTry(body, page, size))

-----------------------------------------------------------------------------
(* What the upstream may answer *)

WellFormedSample == {
    MkHit(JDict([publishing_office |-> S_RU, document_number |-> S_2712345,
                 kind |-> S_C1, publication_date |-> S_Date1,
                 classification |-> JDict([ipc |-> IpcEntries])]),
          JDict([ru |-> JDict([title |-> S_Foo, abstract |-> S_Abs]),
                 en |-> JDict([title |-> S_Bar])])) }

\* a hit that makes _normalize_hit raise
MalformedSample == {
    MkHit(JDict([document_number |-> S_123, classification |-> S_A01B]),
          JDict([title |-> S_Foo])) }

SearchHits == WellFormedSample \cup MalformedSample

\* hit lists in which a hit is a string instead of a mapping
ListsWithStringHit ==
    LET good == CHOOSE h \in WellFormedSample : TRUE
    IN {<<S_Foo>>, <<S_Foo, good>>, <<good, S_Foo, good>>}

RECURSIVE SeqsUpTo(_, _)
SeqsUpTo(S, n) ==
    IF n = 0 THEN {<<>>}
    ELSE LET shorter == SeqsUpTo(S, n - 1)
         IN shorter \cup {Append(l, x) : <<l, x>> \in shorter \X S}

Absent == [present |-> FALSE]
Present(v) == [present |-> TRUE, v |-> v]

HitsOptions ==
    {Present(JList(l)) : l \in SeqsUpTo(SearchHits, MaxHits)}
    \cup {Present(JList(l)) : l \in ListsWithStringHit}
    \cup {Absent, Present(JNull), Present(S_RU),
          Present(JDict([a |-> JInt(1), b |-> JInt(2)]))}

TotalOptions ==
    {Present(JInt(n)) : n \in {0, 3, 100, 101}}
    \cup {Absent, Present(JNull)}

MkBody(h, t) ==
    JDict([k \in (IF h.present THEN {"hits"} ELSE {})
                 \cup (IF t.present THEN {"total"} ELSE {}) |->
             IF k = "hits" THEN h.v ELSE t.v])

Bodies ==
    {MkBody(h, t) : <<h, t>> \in HitsOptions \X TotalOptions}
    \cup {JList(<<>>), JNull}

Init ==
    /\ SearchIdle
    /\ hitIn = JNull
    /\ hitOut = NotCalled
    /\ dateIn = JNull
    /\ dateOut = NotCalled
    /\ padsYear \in BOOLEAN
    /\ coerces \in BOOLEAN

Next ==
    \/ \E query \in Queries, p \in 1..MaxPage, s \in Sizes :
           SearchCall(query, p, s)
    \/ \E exc \in PostErrors : PostRaises(exc)
    \/ \E status \in ErrorStatuses : RaiseForStatus(status)
    \/ JsonRaises
    \/ \E body \in Bodies : PostReturns(body)

Spec == Init /\ [][Next]_vars

-----------------------------------------------------------------------------
(* Properties of /search *)

Body == raw.body

HasKey(key) == key \in DOMAIN Body.d

\* the upstream answered with a JSON object
RepliedObject == pc = "done" /\ raw.kind = "json" /\ Body.t = "dict"

\* the hits the upstream returned, in its order
UpstreamHits ==
    IF ~HasKey("hits") THEN <<>>
    ELSE IF Body.d["hits"].t = "list" THEN Body.d["hits"].l
    ELSE PyIter(Body.d["hits"]).v

HitsIterable == ~HasKey("hits") \/ Body.d["hits"].t \in {"list", "str", "dict"}

TotalUsable == ~HasKey("total") \/ Body.d["total"].t = "int"

AllHitsNormalize ==
    \A i \in 1..Len(UpstreamHits) : _normalize_hit(UpstreamHits[i]).ok

\* the upstream call succeeded, its reply has the fields of the expected
\* types and every hit normalizes
Succeeded ==
    RepliedObject /\ HitsIterable /\ TotalUsable /\ AllHitsNormalize

\* the upstream call failed, or the reply could not be processed
Failed == pc = "done" /\ ~Succeeded

\* C1: on a successful /search, with offset = (page-1)*size and total the
\* total of the response, nextPage is page+1 when offset+size < total and
\* null otherwise
NextPageIffMoreResults ==
    Succeeded =>
        LET offset == (page - 1) * size
        IN /\ offset + size < response.total
                => response.nextPage = JInt(page + 1)
           /\ offset + size >= response.total => response.nextPage = JNull

\* total=101, page=4, size=25 answers nextPage=5
NextPageWitness ==
    /\ Succeeded
    /\ page = 4 /\ size = 25
    /\ response.total = 101
    /\ response.nextPage = JInt(5)

\* C2: when the upstream call fails (transport error, timeout, error status,
\* unparseable body) or the reply cannot be normalized, no exception leaves
\* /search and the response is total=0, nextPage=null, items=[]
FailureGivesEmptyResponse ==
    Failed =>
        /\ ~escaped
        /\ response # NoResponse
        /\ response.total = 0
        /\ response.nextPage = JNull
        /\ response.items = <<>>

\* a hit fails to normalize although the upstream reported total=100
FailureWitness ==
    /\ RepliedObject /\ HitsIterable /\ ~AllHitsNormalize
    /\ HasKey("total") /\ Body.d["total"] = JInt(100)
    /\ Len(UpstreamHits) = 2
    /\ response.total = 0 /\ response.items = <<>>

\* C4: a malformed hit does not affect the others: the response has one
\* item per upstream hit, and the item of each well-formed hit is the one
\* that hit normalizes to alone
MalformedHitLeavesOthers ==
    (RepliedObject /\ HasKey("hits") /\ Body.d["hits"].t = "list"
        /\ TotalUsable)
    => /\ Len(response.items) = Len(UpstreamHits)
       /\ \A i \in 1..Len(UpstreamHits) :
              UpstreamHits[i] \in WellFormedSample
              => response.items[i] = _normalize_hit(UpstreamHits[i]).v

\* C5: a request makes exactly one POST before it responds: never a second
\* attempt, and no response before the attempt has returned or failed
ExactlyOnePost ==
    /\ pc = "idle" => posts = 0 /\ response = NoResponse
    /\ pc = "posted" => posts = 1 /\ response = NoResponse /\ raw = NoReply
    /\ pc = "done" => posts = 1 /\ raw # NoReply

\* the single attempt timed out and the request answered without a retry
OnePostWitness ==
    /\ pc = "done"
    /\ raw.kind = "error" /\ raw.exc = "Timeout"
    /\ posts = 1
    /\ response # NoResponse

\* C6: the upstream payload carries offset = (page-1)*size, limit = size and
\* the query text as given
PayloadCarriesOffsetAndLimit ==
    pc \in {"posted", "done"} =>
        /\ payload.qn = q
        /\ payload.offset = (page - 1) * size
        /\ payload.limit = size

\* page=4, size=25 is posted with offset=75, limit=25
PayloadWitness ==
    /\ pc = "posted"
    /\ page = 4 /\ size = 25
    /\ payload.offset = 75 /\ payload.limit = 25
    /\ payload.qn = "H02S"

\* C7: on a successful /search the response total is the upstream total,
\* and without an upstream total it is the number of hits returned (0 when
\* hits is missing too)
TotalFromUpstreamOrCount ==
    Succeeded =>
        IF HasKey("total") THEN response.total = Body.d["total"].n
        ELSE /\ response.total = Len(UpstreamHits)
             /\ ~HasKey("hits") => response.total = 0

\* no upstream total and three hits: total is 3
TotalWitness ==
    /\ Succeeded
    /\ ~HasKey("total")
    /\ Len(UpstreamHits) = 3
    /\ response.total = 3

\* C8: every response echoes the requested page and size, on the success
\* path and on the failure path, however many items were returned
EchoesPageAndSize ==
    pc = "done" =>
        /\ response # NoResponse
        /\ response.page = page
        /\ response.size = size

\* three items are returned to a request of size 1 on page 2
EchoWitness ==
    /\ Succeeded
    /\ page = 2 /\ size = 1
    /\ Len(response.items) = 3
    /\ response.page = 2 /\ response.size = 1

\* C9: on a successful /search items has one element per upstream hit in
\* the upstream order, items[i] = normalize(hits[i]); nothing is dropped,
\* duplicated, reordered or cut to size
ItemsFollowHits ==
    Succeeded =>
        /\ Len(response.items) = Len(UpstreamHits)
        /\ \A i \in 1..Len(UpstreamHits) :
              response.items[i] = _normalize_hit(UpstreamHits[i]).v

\* three hits with total=3 at page=1, size=25: three items, no next page
ItemsWitness ==
    /\ Succeeded
    /\ page = 1 /\ size = 25
    /\ HasKey("total") /\ Body.d["total"] = JInt(3)
    /\ Len(UpstreamHits) = 3
    /\ \E i \in 1..3 : UpstreamHits[i] \notin WellFormedSample
    /\ Len(response.items) = 3
    /\ response.nextPage = JNull

-----------------------------------------------------------------------------
(* Properties of _normalize_hit and _fmt_date *)

ClassificationIsString(hit) ==
    /\ hit.t = "dict"
    /\ "common" \in DOMAIN hit.d
    /\ hit.d["common"].t = "dict"
    /\ "classification" \in DOMAIN hit.d["common"].d
    /\ hit.d["common"].d["classification"].t = "str"

\* C3: _normalize_hit raises for no hit, whatever block or scalar is
\* missing or of the wrong type; a hit whose classification is a string
\* normalizes to ipc = null
NormalizerNeverRaises ==
    hitOut # NotCalled =>
        /\ hitOut.ok
        /\ ClassificationIsString(hitIn) => hitOut.v["ipc"] = JNull

\* the numbers of the formats that parse ds
ParsingFormats(ds) == {n \in 1..Len(FORMATS) : Strptime(ds, FORMATS[n]).ok}

Min(S) == CHOOSE n \in S : \A m \in S : n <= m

\* YYYY-MM-DD
IsoDate(dt) ==
    ZeroPad(IntToStr(dt[1]), 4) \o <<"-">> \o ZeroPad(IntToStr(dt[2]), 2)
    \o <<"-">> \o ZeroPad(IntToStr(dt[3]), 2)

\* C10: _fmt_date returns the date of the first format, in the order
\* YYYY.MM.DD, YYYY-MM-DD, DD.MM.YYYY, YYYYMMDD, DD.MM.YY, that parses the
\* trimmed string, written as YYYY-MM-DD, and null for an absent or empty
\* string or when no format parses; it does not raise
FirstFormatAsIsoDate ==
    (dateOut # NotCalled /\ dateIn.t \in {"null", "str"}) =>
        /\ dateOut.ok
        /\ IF dateIn.t = "null" \/ dateIn.s = <<>>
              \/ ParsingFormats(Strip(dateIn.s)) = {}
           THEN dateOut.v = JNull
           ELSE LET ds == Strip(dateIn.s)
                    first == Min(ParsingFormats(ds))
                IN dateOut.v = JStr(IsoDate(Strptime(ds, FORMATS[first]).v))

====
